---- MODULE Spec2Model ----
(***************************************************************************)
(* A model of fftw3-rs: the builder2 type-state planner, the lowering of    *)
(* its specification to the FFTW guru interface, the RawPlan handle and     *)
(* the process-wide FFTW lock.                                              *)
(*                                                                          *)
(* Spec      one builder2 Planner, from Planner::new() to plan(), the Plan  *)
(*           it yields and the drop of that Plan.                           *)
(* SpecLock  several threads that create, execute and drop RawPlans, call   *)
(*           the wisdom functions and lock::run.                            *)
(***************************************************************************)
EXTENDS Integers, Sequences, FiniteSets, TLC

(***************************************************************************)
(* Bounds of the model.                                                     *)
(***************************************************************************)
\* usize is modelled WordBits wide, so that products of small lengths wrap
WordBits == 3
\* buffer lengths are MaxLen - 1 and MaxLen
MaxLen == 3
\* dimension lengths range over 0 .. MaxN
MaxN == 3
\* a builder2 Plan is executed at most MaxExec times
MaxExec == 1
\* threads of SpecLock
NThreads == 2
\* the engine hands out at most MaxDesc descriptors in SpecLock
MaxDesc == 2

Word == 2 ^ WordBits

None == "None"
NULL == 0

\* the storage strides offered to input() and output()
StorageStrides == {1, 2}
\* the stride arguments offered to nd_subarray
StrideArgs == {0, 2}
\* the ranks offered to nd and nd_subarray (0 is the empty list)
Ranks == 0 .. 2

Elems == {"f64", "c64"}
BufLens == {MaxLen - 1, MaxLen}
Storages == [elem : Elems, len : BufLens, stride : StorageStrides]

Rigor == {"Estimate", "Measure", "Patient", "Exhaustive"}
Direction == {"Forward", "Backward"}
R2rKind == {"R2hc", "Hc2r", "Dht", "Dct00", "Dct01", "Dct10", "Dct11",
            "Dst00", "Dst01", "Dst10", "Dst11"}
\* the kinds offered to r2r_kinds
KindArgs == {"R2hc", "Dht"}

VARIABLES
    planner,   \* where the Planner value is: "live", "in_plan", "dropped"
    stage,     \* type parameter Stage: "Begin", "Input", "Io", "Inplace"
    state,     \* type parameter State: "Begin", "R2R", "Ready"
    meta,      \* Planner.meta
    data,      \* Planner.data: the bound storages
    calls,     \* how often each operation was called on this builder, and
               \* the last call of a dimension setter
    attempt,   \* the builder as it was when plan() was called, and what
               \* Dim::size returns for its dimensions
    result,    \* what plan() returned to its caller
    plan,      \* the builder2 Plan, or None
    engine,    \* the engine as seen by the builder: create and destroy calls
    pc,        \* SpecLock: where each thread is
    op,        \* SpecLock: the function each thread called lock::run from
    mutex,     \* SpecLock: FFTW_MUTEX
    owned,     \* SpecLock: the RawPlan each thread owns: <<>> or <<RawPlan>>
    descs,     \* SpecLock: the engine's descriptors and the calls made on them
    mem,       \* builder.rs: the Planner, InPlacePlanner, PlanMem or Planned the
               \* caller holds, and the engine calls made for it
    oned       \* lib.rs, plan.rs: the last call of a 1-D function, what it
               \* returned, the Plan<In, Out> the caller holds, and the engine
               \* calls made for it

bvars == <<planner, stage, state, meta, data, calls, attempt, result, plan, engine>>
tvars == <<pc, op, mutex, owned, descs>>
ovars == <<mem, oned>>
vars == <<planner, stage, state, meta, data, calls, attempt, result, plan, engine,
          pc, op, mutex, owned, descs, mem, oned>>

(***************************************************************************)
(* Machine arithmetic on usize.                                             *)
(***************************************************************************)
WMul(a, b) == (a * b) % Word
Overflows(a, b) == a * b >= Word

(***************************************************************************)
(* builder2: Dim and Dim::size                                              *)
(***************************************************************************)
Dim(n, is, os) == [n |-> n, in_stride |-> is, out_stride |-> os]

\* ds[.. k].iter().fold(1, |m, d| m * d.n)
RECURSIVE FoldN(_, _)
FoldN(ds, k) == IF k = 0 THEN 1 ELSE WMul(FoldN(ds, k - 1), ds[k].n)

RECURSIVE FoldNOverflows(_, _)
FoldNOverflows(ds, k) ==
    IF k = 0 THEN FALSE
    ELSE FoldNOverflows(ds, k - 1) \/ Overflows(FoldN(ds, k - 1), ds[k].n)

DimSize(ds) ==
    LET head == FoldN(ds, Len(ds) - 1)
        last == ds[Len(ds)]
    IN  <<WMul(head, last.n), WMul(head, (last.n \div 2) + 1)>>

\* some multiplication of Dim::size exceeds the word
DimSizeOverflows(ds) ==
    LET head == FoldN(ds, Len(ds) - 1)
        last == ds[Len(ds)]
    IN  \/ FoldNOverflows(ds, Len(ds) - 1)
        \/ Overflows(head, last.n)
        \/ Overflows(head, (last.n \div 2) + 1)

(***************************************************************************)
(* builder2: Rigor, Direction, R2rKind                                      *)
(***************************************************************************)
\* Rigor::flags; a flag word is modelled as the set of its flags
RigorFlags(r) ==
    CASE r = "Estimate" -> {"FFTW_ESTIMATE"}
      [] r = "Measure" -> {"FFTW_MEASURE"}
      [] r = "Patient" -> {"FFTW_PATIENT"}
      [] r = "Exhaustive" -> {"FFTW_EXHAUSTIVE"}

DirectionSign(d) ==
    CASE d = "Forward" -> "FFTW_FORWARD"
      [] d = "Backward" -> "FFTW_BACKWARD"

as_fftw(k) ==
    CASE k = "R2hc" -> "FFTW_R2HC"
      [] k = "Hc2r" -> "FFTW_HC2R"
      [] k = "Dht" -> "FFTW_DHT"
      [] k = "Dct00" -> "FFTW_REDFT00"
      [] k = "Dct01" -> "FFTW_REDFT01"
      [] k = "Dct10" -> "FFTW_REDFT10"
      [] k = "Dct11" -> "FFTW_REDFT11"
      [] k = "Dst00" -> "FFTW_RODFT00"
      [] k = "Dst01" -> "FFTW_RODFT01"
      [] k = "Dst10" -> "FFTW_RODFT10"
      [] k = "Dst11" -> "FFTW_RODFT11"

(***************************************************************************)
(* builder2: PlanningError, the engine's create call, RawPlan, do_plan      *)
(***************************************************************************)
Err(kind, a, b, ds) == [kind |-> kind, a |-> a, b |-> b, dims |-> ds]
NoErr == Err("none", 0, 0, <<>>)
FftwError == Err("FftwError", 0, 0, <<>>)
NoLengthNoDefault == Err("NoLengthNoDefault", 0, 0, <<>>)
BufferTooSmall(a, b, ds) == Err("BufferTooSmall", a, b, ds)

\* the arguments of one guru64 create call
Create(fn, rank, ds, m, in_ptr, out_ptr, sign, kinds) ==
    [fn |-> fn, rank |-> rank, dims |-> ds,
     howmany_rank |-> Len(m.howmany), howmany_dims |-> m.howmany,
     in_ptr |-> in_ptr, out_ptr |-> out_ptr,
     sign |-> sign, kinds |-> kinds, flags |-> RigorFlags(m.rigor)]
NoCreate ==
    [fn |-> "none", rank |-> 0, dims |-> <<>>,
     howmany_rank |-> 0, howmany_dims |-> <<>>,
     in_ptr |-> None, out_ptr |-> None,
     sign |-> None, kinds |-> <<>>, flags |-> {}]

\* what FftData::plan does before it reaches do_plan:
\*   tag "create": it calls the engine with `call`;  tag "Err": it returns err;
\*   tag "unimplemented", "assert": it panics;
\*   ovf: a multiplication it evaluated exceeds the word
Lowered(tag, err, call, ovf) == [tag |-> tag, err |-> err, call |-> call, ovf |-> ovf]

\* a RawPlan::new that wraps a null pointer too
RawPlanNew_Unchecked(p) == <<[plan |-> p]>>

\* RawPlan::new applied to the pointer the closure returned: Option<RawPlan>
RawPlanNew(p) == IF p = NULL THEN <<>> ELSE <<[plan |-> p]>>

\* a do_plan that takes every pointer for a plan
do_plan_NullIsOk(p) == [tag |-> "Ok", raw |-> <<[plan |-> p]>>, err |-> NoErr]

\* do_plan applied to the pointer the closure returned: PlanResult<RawPlan>
do_plan(p) ==
    IF RawPlanNew(p) # <<>>
    THEN [tag |-> "Ok", raw |-> RawPlanNew(p), err |-> NoErr]
    ELSE [tag |-> "Err", raw |-> <<>>, err |-> FftwError]

(***************************************************************************)
(* builder2/fft_data.rs: the four FftData::plan implementations.            *)
(* in_ is the input storage, out is <<>> (None) or <<storage>> (Some).      *)
(***************************************************************************)
\* impl FftData<Complex<f64>> for Complex<f64>
PlanC2C(in_, out, m) ==
    LET in_len == in_.len
        in_stride == in_.stride
        out_ptr == IF out # <<>> THEN "out" ELSE "in"
        out_len == IF out # <<>> THEN out[1].len ELSE in_len
        out_stride == IF out # <<>> THEN out[1].stride ELSE in_stride
        use_default_length == m.dims = <<>>
        default == <<Dim(in_len, in_stride, out_stride)>>
        required_len == IF use_default_length THEN in_len ELSE DimSize(m.dims)[1]
        ovf == ~use_default_length /\ DimSizeOverflows(m.dims)
    IN  IF in_len < required_len \/ out_len < required_len
        THEN Lowered("Err", BufferTooSmall(in_len, out_len, m.dims), NoCreate, ovf)
        ELSE Lowered("create", NoErr,
                     Create("fftw_plan_guru64_dft",
                            IF use_default_length THEN 1 ELSE Len(m.dims),
                            IF use_default_length THEN default ELSE m.dims,
                            m, "in", out_ptr, DirectionSign(m.direction), <<>>),
                     ovf)

\* an r2c lowering that takes the input's length when no dimension is given
PlanR2C_DefaultLength(in_, out, m) ==
    LET ds == IF m.dims = <<>>
              THEN <<Dim(in_.len, in_.stride, out[1].stride)>>
              ELSE m.dims
    IN  IF out = <<>> THEN Lowered("unimplemented", NoErr, NoCreate, FALSE)
        ELSE IF in_.len < DimSize(ds)[1] \/ out[1].len < DimSize(ds)[2]
        THEN Lowered("Err", BufferTooSmall(in_.len, out[1].len, m.dims), NoCreate,
                     DimSizeOverflows(ds))
        ELSE Lowered("create", NoErr,
                     Create("fftw_plan_guru64_dft_r2c", Len(ds), ds,
                            m, "in", "out", None, <<>>),
                     DimSizeOverflows(ds))

\* impl FftData<Complex<f64>> for f64
PlanR2C(in_, out, m) ==
    LET in_len == in_.len
        out_len == out[1].len
        use_default_length == m.dims = <<>>
        r_size == DimSize(m.dims)[1]
        c_size == DimSize(m.dims)[2]
    IN  IF out = <<>> THEN Lowered("unimplemented", NoErr, NoCreate, FALSE)
        ELSE IF use_default_length
        THEN Lowered("Err", NoLengthNoDefault, NoCreate, FALSE)
        ELSE IF in_len < r_size \/ out_len < c_size
        THEN Lowered("Err", BufferTooSmall(in_len, out_len, m.dims), NoCreate,
                     DimSizeOverflows(m.dims))
        ELSE Lowered("create", NoErr,
                     Create("fftw_plan_guru64_dft_r2c", Len(m.dims), m.dims,
                            m, "in", "out", None, <<>>),
                     DimSizeOverflows(m.dims))

\* impl FftData<f64> for Complex<f64>
PlanC2R(in_, out, m) ==
    LET in_len == in_.len
        out_len == out[1].len
        use_default_length == m.dims = <<>>
        r_size == DimSize(m.dims)[1]
        c_size == DimSize(m.dims)[2]
    IN  IF out = <<>> THEN Lowered("unimplemented", NoErr, NoCreate, FALSE)
        ELSE IF use_default_length
        THEN Lowered("Err", NoLengthNoDefault, NoCreate, FALSE)
        ELSE IF in_len < c_size \/ out_len < r_size
        THEN Lowered("Err", BufferTooSmall(in_len, out_len, m.dims), NoCreate,
                     DimSizeOverflows(m.dims))
        ELSE Lowered("create", NoErr,
                     Create("fftw_plan_guru64_dft_c2r", Len(m.dims), m.dims,
                            m, "in", "out", None, <<>>),
                     DimSizeOverflows(m.dims))

\* impl FftData<f64> for f64
PlanR2R(in_, out, m) ==
    LET in_len == in_.len
        in_stride == in_.stride
        out_ptr == IF out # <<>> THEN "out" ELSE "in"
        out_len == IF out # <<>> THEN out[1].len ELSE in_len
        out_stride == IF out # <<>> THEN out[1].stride ELSE in_stride
        use_default_length == m.dims = <<>>
        default == <<Dim(in_len, in_stride, out_stride)>>
        required_len == IF use_default_length THEN in_len ELSE DimSize(m.dims)[1]
        ovf == ~use_default_length /\ DimSizeOverflows(m.dims)
        rank == IF use_default_length THEN 1 ELSE Len(m.dims)
    IN  IF in_len < required_len \/ out_len < required_len
        THEN Lowered("Err", BufferTooSmall(in_len, out_len, m.dims), NoCreate, ovf)
        ELSE IF ~(Len(m.r2r_kinds) = rank \/ Len(m.r2r_kinds) = 1)
        THEN Lowered("assert", NoErr, NoCreate, ovf)
        ELSE Lowered("create", NoErr,
                     Create("fftw_plan_guru64_r2r", rank,
                            IF use_default_length THEN default ELSE m.dims,
                            m, "in", out_ptr, None, m.r2r_kinds),
                     ovf)

\* the impl the compiler selects for the element types of the two storages
FftDataPlan(ie, oe, in_, out, m) ==
    CASE ie = "c64" /\ oe = "c64" -> PlanC2C(in_, out, m)
      [] ie = "f64" /\ oe = "c64" -> PlanR2C(in_, out, m)
      [] ie = "c64" /\ oe = "f64" -> PlanC2R(in_, out, m)
      [] ie = "f64" /\ oe = "f64" -> PlanR2R(in_, out, m)

\* an impl FftData<f64> for f64 whose State is Ready
FftDataState_AlwaysReady(ie, oe) == "Ready"

\* <I::Elem as FftData<O::Elem>>::State
FftDataState(ie, oe) == IF ie = "f64" /\ oe = "f64" THEN "R2R" ELSE "Ready"

\* an impl FftSpec for Inplace<I> that lowers through the impl of the other
\* element type
FftSpecPlan_InplaceMixed(st, d, m) ==
    IF st = "Inplace"
    THEN FftDataPlan(d.in_[1].elem, IF d.in_[1].elem = "f64" THEN "c64" ELSE "f64",
                     d.in_[1], <<>>, m)
    ELSE FftDataPlan(d.in_[1].elem, d.out[1].elem, d.in_[1], d.out, m)

\* impl FftSpec for Inplace<I> and for Io<I, O>
FftSpecPlan(st, d, m) ==
    IF st = "Inplace"
    THEN FftDataPlan(d.in_[1].elem, d.in_[1].elem, d.in_[1], <<>>, m)
    ELSE FftDataPlan(d.in_[1].elem, d.out[1].elem, d.in_[1], d.out, m)

(***************************************************************************)
(* builder2: Planner                                                        *)
(***************************************************************************)
\* Planner::new
NewMeta ==
    [rigor |-> "Estimate", wisdom_restriction |-> FALSE, direction |-> "Forward",
     r2r_kinds |-> <<>>, overall_dims |-> <<>>, dims |-> <<>>, howmany |-> <<>>,
     in_stride |-> 1, out_stride |-> 1]
\* the dimension setter that returned the live builder last, with its argument
DimsCall(fn, lens, entries, replaced) ==
    [fn |-> fn, lens |-> lens, entries |-> entries, replaced |-> replaced]
NoDimsCall == DimsCall("none", <<>>, <<>>, FALSE)
NoCalls ==
    [input |-> 0, output |-> 0, inplace |-> 0, kinds |-> 0, plan |-> 0,
     dims |-> NoDimsCall]
NoData == [in_ |-> <<>>, out |-> <<>>]
NoAttempt ==
    [stage |-> "none", state |-> "none", data |-> NoData, meta |-> NewMeta,
     size |-> <<>>]
NoResult == [tag |-> "none", err |-> NoErr]
NoEngine ==
    [call |-> NoCreate, kinds_read |-> <<>>, ret |-> <<>>, executes |-> 0,
     destroyed |-> <<>>]

BuilderInit ==
    /\ planner = "live"
    /\ stage = "Begin"
    /\ state = "Begin"
    /\ meta = NewMeta
    /\ data = NoData
    /\ calls = NoCalls
    /\ attempt = NoAttempt
    /\ result = NoResult
    /\ plan = <<>>
    /\ engine = NoEngine

\* the Planner value is dropped: it has no fields any more
Dropped ==
    /\ planner' = "dropped"
    /\ stage' = "Gone"
    /\ state' = "Gone"
    /\ meta' = NewMeta
    /\ data' = NoData

\* a panic inside a method that took the builder by value: unwinding drops it
Panics ==
    /\ Dropped
    /\ result' = [tag |-> "panic", err |-> NoErr]

\* an assert! that fails inside a method that took the builder by value
AssertFails(msg) ==
    /\ Dropped
    /\ result' = [tag |-> "panic", err |-> Err(msg, 0, 0, <<>>)]

\* the caller makes another builder once the previous one is gone
PlannerNew ==
    /\ planner = "dropped"
    /\ planner' = "live"
    /\ stage' = "Begin"
    /\ state' = "Begin"
    /\ meta' = NewMeta
    /\ data' = NoData
    /\ calls' = NoCalls
    /\ attempt' = NoAttempt
    /\ result' = NoResult
    /\ plan' = <<>>
    /\ engine' = NoEngine
    /\ UNCHANGED <<tvars, ovars>>

\* an input() that exists in every stage: impl<X, Y> Planner<X, Y>
PlannerInput_AnyStage(in_) ==
    /\ planner = "live"
    /\ meta' = [meta EXCEPT !.in_stride = in_.stride]
    /\ data' = [in_ |-> <<in_>>, out |-> <<>>]
    /\ stage' = "Input"
    /\ state' = "Begin"
    /\ calls' = [calls EXCEPT !.input = @ + 1]
    /\ UNCHANGED <<planner, attempt, result, plan, engine>>
    /\ UNCHANGED <<tvars, ovars>>

\* impl<Y> Planner<Begin, Y> :: input
PlannerInput(in_) ==
    /\ planner = "live"
    /\ stage = "Begin"
    /\ meta' = [meta EXCEPT !.in_stride = in_.stride]
    /\ data' = [data EXCEPT !.in_ = <<in_>>]
    /\ stage' = "Input"
    /\ state' = "Begin"
    /\ calls' = [calls EXCEPT !.input = @ + 1]
    /\ UNCHANGED <<planner, attempt, result, plan, engine>>
    /\ UNCHANGED <<tvars, ovars>>

\* impl<I, Y> Planner<Input<I>, Y> :: output
PlannerOutput(out) ==
    /\ planner = "live"
    /\ stage = "Input"
    /\ meta' = [meta EXCEPT !.out_stride = out.stride]
    /\ data' = [data EXCEPT !.out = <<out>>]
    /\ stage' = "Io"
    /\ state' = FftDataState(data.in_[1].elem, out.elem)
    /\ calls' = [calls EXCEPT !.output = @ + 1]
    /\ UNCHANGED <<planner, attempt, result, plan, engine>>
    /\ UNCHANGED <<tvars, ovars>>

\* an inplace() that leaves the recorded output stride as it was
PlannerInplace_KeepsOutStride ==
    /\ planner = "live"
    /\ stage = "Input"
    /\ meta' = meta
    /\ data' = data
    /\ stage' = "Inplace"
    /\ state' = FftDataState(data.in_[1].elem, data.in_[1].elem)
    /\ calls' = [calls EXCEPT !.inplace = @ + 1]
    /\ UNCHANGED <<planner, attempt, result, plan, engine>>
    /\ UNCHANGED <<tvars, ovars>>

\* impl<I, Y> Planner<Input<I>, Y> :: inplace
PlannerInplace ==
    /\ planner = "live"
    /\ stage = "Input"
    /\ meta' = [meta EXCEPT !.out_stride = meta.in_stride]
    /\ data' = data
    /\ stage' = "Inplace"
    /\ state' = FftDataState(data.in_[1].elem, data.in_[1].elem)
    /\ calls' = [calls EXCEPT !.inplace = @ + 1]
    /\ UNCHANGED <<planner, attempt, result, plan, engine>>
    /\ UNCHANGED <<tvars, ovars>>

\* impl<X, Y> Planner<X, Y> :: rigor / wisdom_restriction / direction
\* They write one field of meta and nothing else, in every stage; Next leaves
\* them out, so that the storages and dimension lists can range widely.
PlannerRigor(r) ==
    /\ planner = "live"
    /\ meta' = [meta EXCEPT !.rigor = r]
    /\ UNCHANGED <<planner, stage, state, data, calls, attempt, result, plan, engine>>
    /\ UNCHANGED <<tvars, ovars>>

\* wisdom_restriction rebuilding the settings from their defaults
PlannerWisdomRestriction_ResetsRigor(wisdom_only) ==
    /\ planner = "live"
    /\ meta' = [meta EXCEPT !.wisdom_restriction = wisdom_only, !.rigor = "Estimate"]
    /\ UNCHANGED <<planner, stage, state, data, calls, attempt, result, plan, engine>>
    /\ UNCHANGED <<tvars, ovars>>
PlannerWisdomRestriction(wisdom_only) ==
    /\ planner = "live"
    /\ meta' = [meta EXCEPT !.wisdom_restriction = wisdom_only]
    /\ UNCHANGED <<planner, stage, state, data, calls, attempt, result, plan, engine>>
    /\ UNCHANGED <<tvars, ovars>>

PlannerDirection(direction) ==
    /\ planner = "live"
    /\ meta' = [meta EXCEPT !.direction = direction]
    /\ UNCHANGED <<planner, stage, state, data, calls, attempt, result, plan, engine>>
    /\ UNCHANGED <<tvars, ovars>>

\* the value of `stride` in nd when the loop reaches place i (from the back)
RECURSIVE NdStride(_, _)
NdStride(lens, i) ==
    IF i >= Len(lens) THEN 1 ELSE WMul(NdStride(lens, i + 1), lens[i + 1])

\* nd without `self.meta.dims.clear()`
NdDims_NoClear(lens) ==
    meta.dims \o [i \in 1 .. Len(lens) |-> Dim(lens[i], NdStride(lens, i), NdStride(lens, i))]
NdDims(lens) == [i \in 1 .. Len(lens) |-> Dim(lens[i], NdStride(lens, i), NdStride(lens, i))]

\* some `stride *= place.n` of nd exceeds the word
NdOverflows(lens) == \E i \in 1 .. Len(lens) : Overflows(NdStride(lens, i), lens[i])

\* X: HasInput + HasOutput
HasInputHasOutput == stage \in {"Io", "Inplace"}

\* nd without its assert!: an empty list clears the dimensions
PlannerNd_NoAssert(lens) ==
    /\ planner = "live"
    /\ HasInputHasOutput
    /\ \/ /\ NdOverflows(lens)
          /\ Panics
          /\ calls' = [calls EXCEPT !.dims = NoDimsCall]
       \/ /\ meta' = [meta EXCEPT !.dims = NdDims(lens)]
          /\ calls' = [calls EXCEPT !.dims = DimsCall("nd", lens, <<>>, meta.dims # <<>>)]
          /\ UNCHANGED <<planner, stage, state, data, result>>
    /\ UNCHANGED <<attempt, plan, engine>>
    /\ UNCHANGED <<tvars, ovars>>

\* Planner::nd
\* An overflowing multiplication panics in a build with overflow checks and
\* wraps in a build without them: both outcomes are possible.
PlannerNd(lens) ==
    /\ planner = "live"
    /\ HasInputHasOutput
    /\ \/ /\ Len(lens) = 0
          /\ AssertFails("Planner.nd: empty dimensions")
          /\ calls' = [calls EXCEPT !.dims = NoDimsCall]
       \/ /\ NdOverflows(lens)
          /\ Panics
          /\ calls' = [calls EXCEPT !.dims = NoDimsCall]
       \/ /\ Len(lens) > 0
          /\ meta' = [meta EXCEPT !.dims = NdDims(lens)]
          /\ calls' = [calls EXCEPT !.dims = DimsCall("nd", lens, <<>>, meta.dims # <<>>)]
          /\ UNCHANGED <<planner, stage, state, data, result>>
    /\ UNCHANGED <<attempt, plan, engine>>
    /\ UNCHANGED <<tvars, ovars>>

\* Planner::_1d / _2d / _3d
Planner1d(n) == PlannerNd(<<n>>)
Planner2d(n0, n1) == PlannerNd(<<n0, n1>>)
Planner3d(n0, n1, n2) == PlannerNd(<<n0, n1, n2>>)

\* the values of `in_stride` and `out_stride` in nd_subarray at place i
RECURSIVE SubInStride(_, _)
SubInStride(es, i) ==
    IF i >= Len(es) THEN 1 ELSE WMul(SubInStride(es, i + 1), es[i + 1][2])
RECURSIVE SubOutStride(_, _)
SubOutStride(es, i) ==
    IF i >= Len(es) THEN 1 ELSE WMul(SubOutStride(es, i + 1), es[i + 1][3])

SubarrayDims(es) ==
    [i \in 1 .. Len(es) |-> Dim(es[i][1], SubInStride(es, i), SubOutStride(es, i))]

SubarrayOverflows(es) ==
    \E i \in 1 .. Len(es) : \/ Overflows(SubInStride(es, i), es[i][2])
                            \/ Overflows(SubOutStride(es, i), es[i][3])

\* Planner::nd_subarray
PlannerNdSubarray(es) ==
    /\ planner = "live"
    /\ HasInputHasOutput
    /\ \/ /\ Len(es) = 0
          /\ AssertFails("Planner.nd_subarray: empty dimensions")
          /\ calls' = [calls EXCEPT !.dims = NoDimsCall]
       \/ /\ SubarrayOverflows(es)
          /\ Panics
          /\ calls' = [calls EXCEPT !.dims = NoDimsCall]
       \/ /\ Len(es) > 0
          /\ meta' = [meta EXCEPT !.dims = SubarrayDims(es)]
          /\ calls' = [calls EXCEPT !.dims = DimsCall("nd_subarray", <<>>, es, meta.dims # <<>>)]
          /\ UNCHANGED <<planner, stage, state, data, result>>
    /\ UNCHANGED <<attempt, plan, engine>>
    /\ UNCHANGED <<tvars, ovars>>

\* impl<X: FftSpec<Input=f64, Output=f64>> Planner<X, R2R> :: r2r_kinds
PlannerR2rKinds(kinds) ==
    /\ planner = "live"
    /\ HasInputHasOutput
    /\ state = "R2R"
    /\ calls' = [calls EXCEPT !.kinds = @ + 1]
    /\ \/ /\ Len(kinds) = 0
          /\ Panics
       \/ /\ Len(kinds) > 0
          /\ meta' = [meta EXCEPT !.r2r_kinds = [i \in 1 .. Len(kinds) |-> as_fftw(kinds[i])]]
          /\ state' = "Ready"
          /\ UNCHANGED <<planner, stage, data, result>>
    /\ UNCHANGED <<attempt, plan, engine>>
    /\ UNCHANGED <<tvars, ovars>>

\* `d.in_stride *= self.meta.in_stride; d.out_stride *= self.meta.out_stride`
ScaleDims(m) ==
    [i \in 1 .. Len(m.dims) |->
        Dim(m.dims[i].n,
            WMul(m.dims[i].in_stride, m.in_stride),
            WMul(m.dims[i].out_stride, m.out_stride))]

ScaleOverflows(m) ==
    \E i \in 1 .. Len(m.dims) : \/ Overflows(m.dims[i].in_stride, m.in_stride)
                                \/ Overflows(m.dims[i].out_stride, m.out_stride)

\* the pointers the engine's create entry point may return
CreateReturns == {NULL, 1}

\* what a read past the end of the kind vector may find: a kind, or not
PastTheEnd == {"FFTW_R2HC", "not_a_kind"}

\* fftw_plan_guru64_r2r reads `rank` kinds through `meta.r2r_kinds.as_ptr()`:
\* the entries of the vector and, past its end, whatever the memory holds
KindsRead(call) ==
    IF call.fn # "fftw_plan_guru64_r2r" THEN {<<>>}
    ELSE {kr \in [1 .. call.rank -> PastTheEnd \cup {call.kinds[i] : i \in 1 .. Len(call.kinds)}] :
             \A i \in 1 .. call.rank : i <= Len(call.kinds) => kr[i] = call.kinds[i]}

\* impl<X: FftSpec> Planner<X, Ready> :: plan
\* `Err(e) => Err(e)` returns the error alone: the builder, taken by value,
\* is dropped when plan() returns it.
PlannerPlan ==
    /\ planner = "live"
    /\ HasInputHasOutput
    /\ state = "Ready"
    /\ calls' = [calls EXCEPT !.plan = @ + 1, !.dims = NoDimsCall]
    /\ attempt' = [stage |-> stage, state |-> state, data |-> data, meta |-> meta,
                   size |-> IF meta.dims = <<>> THEN <<>>
                            ELSE <<DimSize(ScaleDims(meta))>>]
    /\ LET m == [meta EXCEPT !.dims = ScaleDims(meta)]
           low == FftSpecPlan(stage, data, m)
       IN  \/ /\ ScaleOverflows(meta) \/ low.ovf
              /\ Panics
              /\ UNCHANGED <<plan, engine>>
           \/ /\ low.tag \in {"unimplemented", "assert"}
              /\ Panics
              /\ UNCHANGED <<plan, engine>>
           \/ /\ low.tag = "Err"
              /\ Dropped
              /\ result' = [tag |-> "Err", err |-> low.err]
              /\ UNCHANGED <<plan, engine>>
           \/ /\ low.tag = "create"
              /\ \E p \in CreateReturns, kr \in KindsRead(low.call) :
                   LET r == do_plan(p)
                   IN  /\ engine' = [engine EXCEPT !.call = low.call,
                                                   !.kinds_read = kr,
                                                   !.ret = <<p>>]
                       /\ result' = [tag |-> r.tag, err |-> r.err]
                       /\ IF r.tag = "Ok"
                          THEN /\ plan' = <<[plan |-> r.raw[1]]>>
                               /\ planner' = "in_plan"
                               /\ meta' = m
                               /\ UNCHANGED <<stage, state, data>>
                          ELSE /\ plan' = <<>>
                               /\ Dropped
    /\ UNCHANGED <<tvars, ovars>>

\* impl<X> Plan<X> :: execute
PlanExecute ==
    /\ plan # <<>>
    /\ engine.executes < MaxExec
    /\ engine' = [engine EXCEPT !.executes = @ + 1]
    /\ UNCHANGED <<planner, stage, state, meta, data, calls, attempt, result, plan>>
    /\ UNCHANGED <<tvars, ovars>>

\* the Plan goes out of scope: its RawPlan and the builder inside it are dropped
PlanDrop ==
    /\ plan # <<>>
    /\ engine' = [engine EXCEPT !.destroyed = Append(@, plan[1].plan.plan)]
    /\ plan' = <<>>
    /\ Dropped
    /\ UNCHANGED <<calls, attempt, result>>
    /\ UNCHANGED <<tvars, ovars>>

\* the accessors a builder2 Plan<X> has: in_out is defined on Plan<Inplace<I>>,
\* input and output on Plan<Io<I, O>>
PlanMethods ==
    IF stage = "Inplace" THEN {"in_out", "execute", "debug_print"}
    ELSE {"input", "output", "execute", "debug_print"}

\* Plan<Inplace<I>>::in_out
PlanInOut == data.in_[1]

\* Plan<Io<I, O>>::input
PlanInput == data.in_[1]

\* Plan<Io<I, O>>::output
PlanOutput == data.out[1]

(***************************************************************************)
(* lock.rs, plan.rs, wisdom.rs: threads, FFTW_MUTEX, RawPlan                *)
(***************************************************************************)
Threads == 1 .. NThreads

\* the functions of the crate that call lock::run, and lock::run itself
WisdomFns == {"import_from_system", "export_to_file", "import_from_file"}
LockedFns == {"RawPlan::new", "lock::run"} \cup WisdomFns

ThreadsInit ==
    /\ pc = [t \in Threads |-> "idle"]
    /\ op = [t \in Threads |-> "none"]
    /\ mutex = [holder |-> 0, poisoned |-> FALSE]
    /\ owned = [t \in Threads |-> <<>>]
    /\ descs = [made |-> 0,
                executes |-> [d \in 0 .. MaxDesc |-> 0],
                destroys |-> [d \in 0 .. MaxDesc |-> 0]]

\* a thread calls RawPlan::new, a wisdom function or lock::run: it reaches
\* `FFTW_MUTEX.lock()`
CallLocked(t, fn) ==
    /\ pc[t] = "idle"
    /\ fn = "RawPlan::new" => owned[t] = <<>> /\ descs.made < MaxDesc
    /\ pc' = [pc EXCEPT ![t] = "lock"]
    /\ op' = [op EXCEPT ![t] = fn]
    /\ UNCHANGED <<mutex, owned, descs>>
    /\ UNCHANGED <<bvars, ovars>>

\* a lock that does not exclude: the mutex is taken whoever holds it
Lock_NoExclusion(t) ==
    /\ pc[t] = "lock"
    /\ mutex' = [mutex EXCEPT !.holder = t]
    /\ pc' = [pc EXCEPT ![t] = "closure"]
    /\ UNCHANGED <<op, owned, descs>>
    /\ UNCHANGED <<bvars, ovars>>

\* `let _g = FFTW_MUTEX.lock().unwrap();`: panics on a poisoned mutex
Lock_Unwrap(t) ==
    /\ pc[t] = "lock"
    /\ mutex.holder = 0
    /\ IF mutex.poisoned
       THEN /\ pc' = [pc EXCEPT ![t] = IF owned[t] = <<>> THEN "dead" ELSE "unwind"]
            /\ mutex' = mutex
       ELSE /\ pc' = [pc EXCEPT ![t] = "closure"]
            /\ mutex' = [mutex EXCEPT !.holder = t]
    /\ UNCHANGED <<op, owned, descs>>
    /\ UNCHANGED <<bvars, ovars>>

\* lock::run, `let _g = FFTW_MUTEX.lock();`: blocks until the mutex is free.
\* On a poisoned mutex lock() returns Err(PoisonError), which holds the guard
\* too; the result is bound to _g and never unwrapped.
Lock(t) ==
    /\ pc[t] = "lock"
    /\ mutex.holder = 0
    /\ mutex' = [mutex EXCEPT !.holder = t]
    /\ pc' = [pc EXCEPT ![t] = "closure"]
    /\ UNCHANGED <<op, owned, descs>>
    /\ UNCHANGED <<bvars, ovars>>

\* a lock::run that leaks its guard (mem::forget(_g)) when `f()` returns
ClosureReturns_LeaksGuard(t, p) ==
    /\ pc[t] = "closure"
    /\ pc' = [pc EXCEPT ![t] = "idle"]
    /\ op' = [op EXCEPT ![t] = "none"]
    /\ IF op[t] = "RawPlan::new"
       THEN /\ p \in {NULL, descs.made + 1}
            /\ owned' = [owned EXCEPT ![t] = RawPlanNew(p)]
            /\ descs' = [descs EXCEPT !.made = IF p = NULL THEN @ ELSE p]
       ELSE /\ p = NULL
            /\ UNCHANGED <<owned, descs>>
    /\ UNCHANGED mutex
    /\ UNCHANGED <<bvars, ovars>>

\* lock::run, `f()` returns and _g goes out of scope; RawPlan::new then wraps
\* a non-null pointer
ClosureReturns(t, p) ==
    /\ pc[t] = "closure"
    /\ mutex' = [mutex EXCEPT !.holder = 0]
    /\ pc' = [pc EXCEPT ![t] = "idle"]
    /\ op' = [op EXCEPT ![t] = "none"]
    /\ IF op[t] = "RawPlan::new"
       THEN /\ p \in {NULL, descs.made + 1}
            /\ owned' = [owned EXCEPT ![t] = RawPlanNew(p)]
            /\ descs' = [descs EXCEPT !.made = IF p = NULL THEN @ ELSE p]
       ELSE /\ p = NULL
            /\ UNCHANGED <<owned, descs>>
    /\ UNCHANGED <<bvars, ovars>>

\* lock::run, `f()` panics: unwinding drops _g, which releases and poisons the
\* mutex, and then drops what the thread owns. The closures of this crate only
\* call the engine; a caller's closure may panic.
ClosurePanics(t) ==
    /\ pc[t] = "closure"
    /\ op[t] \in {"RawPlan::new", "lock::run"}
    /\ mutex' = [holder |-> 0, poisoned |-> TRUE]
    /\ pc' = [pc EXCEPT ![t] = IF owned[t] = <<>> THEN "dead" ELSE "unwind"]
    /\ op' = [op EXCEPT ![t] = "none"]
    /\ UNCHANGED <<owned, descs>>
    /\ UNCHANGED <<bvars, ovars>>

\* an execute that runs the engine inside lock::run
ExecuteBegins_UnderLock(t) ==
    /\ pc[t] = "idle"
    /\ owned[t] # <<>>
    /\ descs.executes[owned[t][1].plan] < MaxExec
    /\ mutex.holder = 0
    /\ mutex' = [mutex EXCEPT !.holder = t]
    /\ pc' = [pc EXCEPT ![t] = "execute"]
    /\ UNCHANGED <<op, owned, descs>>
    /\ UNCHANGED <<bvars, ovars>>

\* RawPlan::execute: fftw_execute(self.plan) is entered, and returns
ExecuteBegins(t) ==
    /\ pc[t] = "idle"
    /\ owned[t] # <<>>
    /\ descs.executes[owned[t][1].plan] < MaxExec
    /\ pc' = [pc EXCEPT ![t] = "execute"]
    /\ UNCHANGED <<op, mutex, owned, descs>>
    /\ UNCHANGED <<bvars, ovars>>

ExecuteEnds(t) ==
    /\ pc[t] = "execute"
    /\ descs' = [descs EXCEPT !.executes[owned[t][1].plan] = @ + 1]
    /\ pc' = [pc EXCEPT ![t] = "idle"]
    /\ UNCHANGED <<op, mutex, owned>>
    /\ UNCHANGED <<bvars, ovars>>

\* impl Drop for RawPlan: fftw_destroy_plan(self.plan) is entered, and returns.
\* The RawPlan goes out of scope in its owner, or is dropped by unwinding.
DropBegins(t) ==
    /\ pc[t] \in {"idle", "unwind"}
    /\ owned[t] # <<>>
    /\ pc' = [pc EXCEPT ![t] = IF pc[t] = "idle" THEN "destroy" ELSE "unwind_destroy"]
    /\ UNCHANGED <<op, mutex, owned, descs>>
    /\ UNCHANGED <<bvars, ovars>>

DropEnds(t) ==
    /\ pc[t] \in {"destroy", "unwind_destroy"}
    /\ descs' = [descs EXCEPT !.destroys[owned[t][1].plan] = @ + 1]
    /\ owned' = [owned EXCEPT ![t] = <<>>]
    /\ pc' = [pc EXCEPT ![t] = IF pc[t] = "destroy" THEN "idle" ELSE "dead"]
    /\ UNCHANGED <<op, mutex>>
    /\ UNCHANGED <<bvars, ovars>>

(***************************************************************************)
(* builder.rs: the first builder. Planner -> PlanMem -> Planned              *)
(***************************************************************************)
\* the width of libc::c_int, and 0x7F_FF_FF_FF
CIntBits == 3
CIntMax == 2 ^ (CIntBits - 1) - 1

\* Planner::new
NewPlanner ==
    [rigor |-> "Estimate", wisdom_restriction |-> FALSE, direction |-> "Forward",
     dims |-> <<>>, howmany |-> <<>>]

\* Planner::flags
PlannerFlags(p) ==
    RigorFlags(p.rigor) \cup (IF p.wisdom_restriction THEN {"FFTW_WISDOM_ONLY"} ELSE {})

\* Planner::dir
PlannerDir(p) ==
    CASE p.direction = "Forward" -> "FFTW_FORWARD"
      [] p.direction = "Backward" -> "FFTW_BACKWARD"

\* the engine function behind each GuruPlanner, and whether it takes the sign
GuruPlanner(planner_fn) ==
    CASE planner_fn = "c2c" -> "fftw_plan_guru64_dft"
      [] planner_fn = "r2c" -> "fftw_plan_guru64_dft_r2c"
      [] planner_fn = "c2r" -> "fftw_plan_guru64_dft_c2r"

\* the engine as seen by the first builder
NoMemEngine == [call |-> NoCreate, ret |-> <<>>, executes |-> 0, destroyed |-> <<>>]

\* at: which value the caller holds: "none", "Planner", "InPlacePlanner",
\* "PlanMem", "Planned", "dropped"
NoMem ==
    [at |-> "none", plan |-> NewPlanner, dims |-> <<>>, how_many |-> <<>>,
     in_ |-> <<>>, out |-> <<>>, planner |-> "none", raw |-> <<>>,
     result |-> "none", engine |-> NoMemEngine]

MemInit == mem = NoMem

\* a buffer behind a DerefMut<Target = [T]>
Buffer(elem, len) == [elem |-> elem, len |-> len]

\* a panic inside a method that took the value by self: unwinding drops it
MemPanics ==
    mem' = [NoMem EXCEPT !.at = "dropped", !.result = "panic", !.engine = mem.engine]

\* builder::Planner::new, once the caller holds nothing
BuilderPlannerNew ==
    /\ mem.at \in {"none", "dropped"}
    /\ mem' = [NoMem EXCEPT !.at = "Planner"]
    /\ UNCHANGED <<bvars, tvars, oned>>

\* builder::Planner::rigor
BuilderRigor(r) ==
    /\ mem.at = "Planner"
    /\ mem' = [mem EXCEPT !.plan.rigor = r]
    /\ UNCHANGED <<bvars, tvars, oned>>

\* builder::Planner::wisdom_restriction
BuilderWisdomRestriction(wisdom_only) ==
    /\ mem.at = "Planner"
    /\ mem' = [mem EXCEPT !.plan.wisdom_restriction = wisdom_only]
    /\ UNCHANGED <<bvars, tvars, oned>>

\* builder::Planner::direction
BuilderDirection(direction) ==
    /\ mem.at = "Planner"
    /\ mem' = [mem EXCEPT !.plan.direction = direction]
    /\ UNCHANGED <<bvars, tvars, oned>>

\* builder::Planner::inplace
BuilderInplace ==
    /\ mem.at = "Planner"
    /\ mem' = [mem EXCEPT !.at = "InPlacePlanner"]
    /\ UNCHANGED <<bvars, tvars, oned>>

\* the PlanMem the constructors return
PlanMem(p, in_, out, planner_fn, n) ==
    [mem EXCEPT !.at = "PlanMem", !.plan = p, !.in_ = <<in_>>, !.out = out,
                !.planner = planner_fn, !.dims = <<Dim(n, 1, 1)>>, !.how_many = <<>>]

\* builder::Planner::c2c
BuilderC2C(in_, out) ==
    /\ mem.at = "Planner"
    /\ in_.elem = "c64" /\ out.elem = "c64"
    /\ IF in_.len <= CIntMax /\ in_.len <= out.len
       THEN mem' = PlanMem(mem.plan, in_, <<out>>, "c2c", in_.len)
       ELSE MemPanics
    /\ UNCHANGED <<bvars, tvars, oned>>

\* builder::Planner::c2r: n = 2 * (in_.len() - 1) in usize
C2RLength(in_len) == WMul(2, (in_len - 1) % Word)
C2RLengthOverflows(in_len) == in_len = 0 \/ Overflows(2, in_len - 1)

\* An overflowing subtraction or multiplication panics in a build with
\* overflow checks and wraps in a build without them.
BuilderC2R(in_, out) ==
    /\ mem.at = "Planner"
    /\ in_.elem = "c64" /\ out.elem = "f64"
    /\ IF in_.len <= CIntMax /\ in_.len <= out.len \div 2 + 1
       THEN \/ mem' = PlanMem(mem.plan, in_, <<out>>, "c2r", C2RLength(in_.len))
            \/ /\ C2RLengthOverflows(in_.len)
               /\ MemPanics
       ELSE MemPanics
    /\ UNCHANGED <<bvars, tvars, oned>>

\* builder::Planner::r2c
BuilderR2C(in_, out) ==
    /\ mem.at = "Planner"
    /\ in_.elem = "f64" /\ out.elem = "c64"
    /\ IF in_.len <= CIntMax /\ in_.len \div 2 + 1 <= out.len
       THEN mem' = PlanMem(mem.plan, in_, <<out>>, "r2c", in_.len)
       ELSE MemPanics
    /\ UNCHANGED <<bvars, tvars, oned>>

\* InPlacePlanner::c2c
InPlacePlannerC2C(in_) ==
    /\ mem.at = "InPlacePlanner"
    /\ in_.elem = "c64"
    /\ IF in_.len <= CIntMax
       THEN mem' = PlanMem(mem.plan, in_, <<>>, "c2c", in_.len)
       ELSE MemPanics
    /\ UNCHANGED <<bvars, tvars, oned>>

\* the create call of PlanMem::plan
PlanMemCreate(m) ==
    LET in_ptr == "in"
        out_ptr == IF m.out = <<>> THEN in_ptr ELSE "out"
    IN  [fn |-> GuruPlanner(m.planner), rank |-> Len(m.dims), dims |-> m.dims,
         howmany_rank |-> 0, howmany_dims |-> <<>>,
         in_ptr |-> in_ptr, out_ptr |-> out_ptr,
         sign |-> IF m.planner = "c2c" THEN PlannerDir(m.plan) ELSE "None",
         kinds |-> <<>>, flags |-> PlannerFlags(m.plan)]

\* a plan() that keeps nothing of a PlanMem whose create call failed
PlanMemResult_ErrDropsMem(m, p) ==
    IF RawPlanNew(p) = <<>>
    THEN [NoMem EXCEPT !.at = "dropped", !.result = "Err", !.engine = m.engine]
    ELSE [m EXCEPT !.at = "Planned", !.raw = RawPlanNew(p), !.result = "Ok"]

\* what PlanMem::plan returns for the pointer the create call returned
PlanMemResult(m, p) ==
    IF RawPlanNew(p) = <<>>
    THEN [m EXCEPT !.result = "Err"]
    ELSE [m EXCEPT !.at = "Planned", !.raw = RawPlanNew(p), !.result = "Ok"]

\* PlanMem::plan
PlanMemPlan ==
    /\ mem.at = "PlanMem"
    /\ IF Len(mem.dims) = 1
       THEN \E p \in CreateReturns :
               mem' = PlanMemResult([mem EXCEPT !.engine.call = PlanMemCreate(mem),
                                                !.engine.ret = <<p>>], p)
       ELSE MemPanics
    /\ UNCHANGED <<bvars, tvars, oned>>

\* the PlanMem goes out of scope
PlanMemDrop ==
    /\ mem.at = "PlanMem"
    /\ mem' = [NoMem EXCEPT !.at = "dropped", !.result = mem.result, !.engine = mem.engine]
    /\ UNCHANGED <<bvars, tvars, oned>>

\* Planned::input
PlannedInput == mem.in_[1]

\* Planned::output: Option<&mut O::Target>
PlannedOutput == mem.out

\* Planned::execute
PlannedExecute ==
    /\ mem.at = "Planned"
    /\ mem.engine.executes < MaxExec
    /\ mem' = [mem EXCEPT !.engine.executes = @ + 1]
    /\ UNCHANGED <<bvars, tvars, oned>>

\* the Planned goes out of scope: its RawPlan is dropped
PlannedDrop ==
    /\ mem.at = "Planned"
    /\ mem' = [NoMem EXCEPT !.at = "dropped", !.result = mem.result,
                            !.engine = [mem.engine EXCEPT !.destroyed =
                                            Append(@, mem.raw[1].plan)]]
    /\ UNCHANGED <<bvars, tvars, oned>>

(***************************************************************************)
(* lib.rs: c2c_1d; plan.rs: Plan<In, Out> and its 1-D constructors           *)
(***************************************************************************)
\* `n as i32` / `n as libc::c_int`: the low CIntBits bits, read as signed
NarrowCInt(n) ==
    LET low == n % (2 ^ CIntBits)
    IN  IF low > CIntMax THEN low - 2 ^ CIntBits ELSE low

\* the arguments of one 1-D create call
Create1d(fn, n, sign, flags) ==
    [fn |-> fn, n |-> n, in_ptr |-> "in", out_ptr |-> "out", sign |-> sign,
     flags |-> flags]
NoCreate1d == Create1d("none", 0, "None", {})

\* fn: the function called last; ret: what it returned ("Ok", "Plan",
\* "InsufficientSpace", "FailedPlan", "panic"); created: the pointer the
\* create call returned; plan: the Plan<In, Out> the caller holds
OneD(fn, in_len, out_len) ==
    [fn |-> fn, in_len |-> in_len, out_len |-> out_len, ret |-> "none",
     err |-> <<>>, call |-> NoCreate1d, created |-> <<>>, executes |-> 0,
     destroyed |-> <<>>, plan |-> <<>>]
NoOneD == OneD("none", 0, 0)

OneDInit == oned = NoOneD

\* a c2c_1d that forgets its RawPlan instead of dropping it
c2c_1d_planned_LeaksPlan(o, p) ==
    IF RawPlanNew(p) = <<>>
    THEN [o EXCEPT !.created = <<p>>, !.ret = "FailedPlan"]
    ELSE [o EXCEPT !.created = <<p>>, !.executes = 1, !.ret = "Ok"]

\* what c2c_1d does once the create call has returned p
c2c_1d_planned(o, p) ==
    IF RawPlanNew(p) = <<>>
    THEN [o EXCEPT !.created = <<p>>, !.ret = "FailedPlan"]
    ELSE [o EXCEPT !.created = <<p>>, !.executes = 1,
                   !.destroyed = <<RawPlanNew(p)[1].plan>>, !.ret = "Ok"]

\* lib.rs c2c_1d
c2c_1d(in_, out, forward) ==
    /\ oned.plan = <<>>
    /\ LET o == OneD("c2c_1d", in_.len, out.len)
           sign == IF forward THEN "FFTW_FORWARD" ELSE "FFTW_BACKWARD"
       IN  IF ~(in_.len < CIntMax)
           THEN oned' = [o EXCEPT !.ret = "panic"]
           ELSE IF out.len < in_.len
           THEN oned' = [o EXCEPT !.ret = "InsufficientSpace",
                                  !.err = <<in_.len, out.len>>]
           ELSE \E p \in CreateReturns :
                   oned' = c2c_1d_planned(
                               [o EXCEPT !.call = Create1d("fftw_plan_dft_1d",
                                                           NarrowCInt(in_.len), sign,
                                                           {"FFTW_ESTIMATE"})], p)
    /\ UNCHANGED <<bvars, tvars, mem>>

\* RawPlan::new(..).unwrap() and `Plan { raw: plan, in_: in_, out: out }`
PlanPrealloc(o, call, in_, out, p) ==
    IF RawPlanNew(p) = <<>>
    THEN [o EXCEPT !.call = call, !.created = <<p>>, !.ret = "panic"]
    ELSE [o EXCEPT !.call = call, !.created = <<p>>, !.ret = "Plan",
                   !.plan = <<[raw |-> RawPlanNew(p)[1], in_ |-> in_, out |-> out]>>]

\* half the input length, without the coefficient at the Nyquist frequency
r2c_out_len_Half(n) == n \div 2

\* the output length r2c_1d_prealloc asks for
r2c_out_len(n) == n \div 2 + 1

\* Plan::r2c_1d_prealloc
Plan_r2c_1d_prealloc(in_, out) ==
    /\ oned.plan = <<>>
    /\ LET o == OneD("Plan::r2c_1d_prealloc", in_.len, out.len)
           n == in_.len
       IN  IF out.len < r2c_out_len(n)
           THEN oned' = [o EXCEPT !.ret = "panic"]
           ELSE \E p \in CreateReturns :
                   oned' = PlanPrealloc(o, Create1d("fftw_plan_dft_r2c_1d", NarrowCInt(n),
                                                    "None", {"FFTW_ESTIMATE"}),
                                        in_, out, p)
    /\ UNCHANGED <<bvars, tvars, mem>>

\* Plan::r2c_1d
Plan_r2c_1d(n) == Plan_r2c_1d_prealloc(Buffer("f64", n), Buffer("c64", n \div 2 + 1))

\* Plan::c2r_1d_prealloc
Plan_c2r_1d_prealloc(in_, out) ==
    /\ oned.plan = <<>>
    /\ LET o == OneD("Plan::c2r_1d_prealloc", in_.len, out.len)
           n == out.len
       IN  IF in_.len > n \div 2 + 1
           THEN oned' = [o EXCEPT !.ret = "panic"]
           ELSE \E p \in CreateReturns :
                   oned' = PlanPrealloc(o, Create1d("fftw_plan_dft_c2r_1d", NarrowCInt(n),
                                                    "None", {"FFTW_ESTIMATE"}),
                                        in_, out, p)
    /\ UNCHANGED <<bvars, tvars, mem>>

\* Plan::c2r_1d
Plan_c2r_1d(n) == Plan_c2r_1d_prealloc(Buffer("c64", n \div 2 + 1), Buffer("f64", n))

\* Plan::c2c_1d_prealloc
Plan_c2c_1d_prealloc(in_, out) ==
    /\ oned.plan = <<>>
    /\ LET o == OneD("Plan::c2c_1d_prealloc", in_.len, out.len)
           n == in_.len
       IN  IF out.len < n
           THEN oned' = [o EXCEPT !.ret = "panic"]
           ELSE \E p \in CreateReturns :
                   oned' = PlanPrealloc(o, Create1d("fftw_plan_dft_1d", NarrowCInt(n),
                                                    "FFTW_FORWARD", {"FFTW_ESTIMATE"}),
                                        in_, out, p)
    /\ UNCHANGED <<bvars, tvars, mem>>

\* Plan::c2c_1d
Plan_c2c_1d(n) == Plan_c2c_1d_prealloc(Buffer("c64", n), Buffer("c64", n))

\* Plan::execute
Plan_execute ==
    /\ oned.plan # <<>>
    /\ oned.executes < MaxExec
    /\ oned' = [oned EXCEPT !.executes = @ + 1]
    /\ UNCHANGED <<bvars, tvars, mem>>

\* Plan::take_out, Plan::take_in, or the Plan going out of scope: the RawPlan
\* is dropped
Plan_drop ==
    /\ oned.plan # <<>>
    /\ oned' = [oned EXCEPT !.plan = <<>>,
                            !.destroyed = Append(@, oned.plan[1].raw.plan)]
    /\ UNCHANGED <<bvars, tvars, mem>>

(***************************************************************************)
(* The arguments the caller may pass.                                       *)
(***************************************************************************)
DimLens == 0 .. MaxN
\* the lengths offered to _2d and _3d, and to nd_subarray
FewLens == {1, 2}
LenLists == UNION {[1 .. r -> DimLens] : r \in Ranks}
SubEntries == FewLens \X StrideArgs \X StrideArgs
EntryLists == UNION {[1 .. r -> SubEntries] : r \in Ranks}
\* the lists offered to nd_subarray where the storages range widely
ShortEntryLists == UNION {[1 .. r -> SubEntries] : r \in 0 .. 1}
KindLists == UNION {[1 .. r -> KindArgs] : r \in 0 .. 3}

Init ==
    /\ BuilderInit
    /\ ThreadsInit
    /\ MemInit
    /\ OneDInit

Next ==
    \/ PlannerNew
    \/ \E in_ \in Storages : PlannerInput(in_)
    \/ \E out \in Storages : PlannerOutput(out)
    \/ PlannerInplace
    \/ \E lens \in LenLists : PlannerNd(lens)
    \/ \E n \in DimLens : Planner1d(n)
    \/ \E n0, n1 \in FewLens : Planner2d(n0, n1)
    \/ \E n0, n1, n2 \in FewLens : Planner3d(n0, n1, n2)
    \/ \E es \in ShortEntryLists : PlannerNdSubarray(es)
    \/ \E kinds \in KindLists : PlannerR2rKinds(kinds)
    \/ PlannerPlan
    \/ PlanExecute
    \/ PlanDrop

Spec == Init /\ [][Next]_vars

\* The first builder, with buffers from empty to one element more than a
\* c_int can count.
BufferLens == 0 .. MaxLen + 1
Buffers(elem) == {Buffer(elem, len) : len \in BufferLens}

NextBuilder ==
    \/ BuilderPlannerNew
    \/ \E r \in Rigor : BuilderRigor(r)
    \/ \E wisdom_only \in BOOLEAN : BuilderWisdomRestriction(wisdom_only)
    \/ \E direction \in Direction : BuilderDirection(direction)
    \/ BuilderInplace
    \/ \E in_, out \in Buffers("c64") : BuilderC2C(in_, out)
    \/ \E in_ \in Buffers("c64"), out \in Buffers("f64") : BuilderC2R(in_, out)
    \/ \E in_ \in Buffers("f64"), out \in Buffers("c64") : BuilderR2C(in_, out)
    \/ \E in_ \in Buffers("c64") : InPlacePlannerC2C(in_)
    \/ PlanMemPlan
    \/ PlanMemDrop
    \/ PlannedExecute
    \/ PlannedDrop

SpecBuilder == Init /\ [][NextBuilder]_vars

\* The 1-D functions of lib.rs and plan.rs over the same buffers.
NextOneD ==
    \/ \E in_, out \in Buffers("c64"), forward \in BOOLEAN : c2c_1d(in_, out, forward)
    \/ \E in_ \in Buffers("f64"), out \in Buffers("c64") : Plan_r2c_1d_prealloc(in_, out)
    \/ \E in_ \in Buffers("c64"), out \in Buffers("f64") : Plan_c2r_1d_prealloc(in_, out)
    \/ \E in_, out \in Buffers("c64") : Plan_c2c_1d_prealloc(in_, out)
    \/ \E n \in BufferLens : Plan_r2c_1d(n)
    \/ \E n \in BufferLens : Plan_c2r_1d(n)
    \/ \E n \in BufferLens : Plan_c2c_1d(n)
    \/ Plan_execute
    \/ Plan_drop

SpecOneD == Init /\ [][NextOneD]_vars

\* The builder with its settings: rigor, wisdom_restriction and direction may
\* be called in every stage; the storages are tightly packed and of full
\* length, the dimension setter is _1d.
SettingStorages == {st \in Storages : st.len = MaxLen /\ st.stride = 1}

NextSettings ==
    \/ PlannerNew
    \/ \E in_ \in SettingStorages : PlannerInput(in_)
    \/ \E out \in SettingStorages : PlannerOutput(out)
    \/ PlannerInplace
    \/ \E r \in Rigor : PlannerRigor(r)
    \/ \E wisdom_only \in BOOLEAN : PlannerWisdomRestriction(wisdom_only)
    \/ \E direction \in Direction : PlannerDirection(direction)
    \/ \E n \in {MaxN - 1, MaxN} : Planner1d(n)
    \/ \E kinds \in KindLists : PlannerR2rKinds(kinds)
    \/ PlannerPlan
    \/ PlanExecute
    \/ PlanDrop

SpecSettings == Init /\ [][NextSettings]_vars

\* The builder with its dimension setters over longer lists: up to three
\* lengths for nd, _2d and _3d over all of DimLens.
WideLenLists == UNION {[1 .. r -> DimLens] : r \in 0 .. 3}

NextDims ==
    \/ PlannerNew
    \/ \E in_ \in SettingStorages : PlannerInput(in_)
    \/ \E out \in SettingStorages : PlannerOutput(out)
    \/ PlannerInplace
    \/ \E lens \in WideLenLists : PlannerNd(lens)
    \/ \E n \in DimLens : Planner1d(n)
    \/ \E n0, n1 \in DimLens : Planner2d(n0, n1)
    \/ \E n0, n1, n2 \in DimLens : Planner3d(n0, n1, n2)
    \/ \E es \in EntryLists : PlannerNdSubarray(es)
    \/ \E k \in KindArgs : PlannerR2rKinds(<<k>>)
    \/ PlannerPlan
    \/ PlanDrop

SpecDims == Init /\ [][NextDims]_vars

\* The builder with row-major dimension lists over buffers long enough for a
\* transform of rank 2 whose lengths multiply without overflow.
LongStorages == [elem : Elems, len : {MaxLen + 1, 2 * MaxLen}, stride : StorageStrides]
RowMajorLists == UNION {[1 .. r -> DimLens] : r \in 1 .. 2}

NextRowMajor ==
    \/ PlannerNew
    \/ \E in_ \in LongStorages : PlannerInput(in_)
    \/ \E out \in LongStorages : PlannerOutput(out)
    \/ PlannerInplace
    \/ \E lens \in RowMajorLists : PlannerNd(lens)
    \/ \E k \in KindArgs : PlannerR2rKinds(<<k>>)
    \/ PlannerPlan
    \/ PlanDrop

SpecRowMajor == Init /\ [][NextRowMajor]_vars

\* The in-place transforms of both builders: builder2 through inplace(), the
\* first builder through InPlacePlanner.
NextInplace ==
    \/ PlannerNew
    \/ \E in_ \in Storages : PlannerInput(in_)
    \/ PlannerInplace
    \/ \E lens \in RowMajorLists : PlannerNd(lens)
    \/ \E entries \in ShortEntryLists : PlannerNdSubarray(entries)
    \/ \E k \in KindArgs : PlannerR2rKinds(<<k>>)
    \/ PlannerPlan
    \/ PlanDrop
    \/ BuilderPlannerNew
    \/ BuilderInplace
    \/ \E in_ \in Buffers("c64") : InPlacePlannerC2C(in_)
    \/ PlanMemPlan
    \/ PlanMemDrop
    \/ PlannedDrop

SpecInplace == Init /\ [][NextInplace]_vars

NextLock ==
    \E t \in Threads :
        \/ \E fn \in LockedFns : CallLocked(t, fn)
        \/ Lock(t)
        \/ \E p \in 0 .. MaxDesc : ClosureReturns(t, p)
        \/ ClosurePanics(t)
        \/ ExecuteBegins(t)
        \/ ExecuteEnds(t)
        \/ DropBegins(t)
        \/ DropEnds(t)

SpecLock == Init /\ [][NextLock]_vars

\* Threads that each build a plan with RawPlan::new, execute it and drop it,
\* repeatedly.
NextLive ==
    \E t \in Threads :
        \/ CallLocked(t, "RawPlan::new")
        \/ Lock(t)
        \/ \E p \in 0 .. MaxDesc : ClosureReturns(t, p)
        \/ ClosurePanics(t)
        \/ ExecuteBegins(t)
        \/ ExecuteEnds(t)
        \/ DropBegins(t)
        \/ DropEnds(t)

\* The scheduling the lock and the engine give: a thread that waits in
\* FFTW_MUTEX.lock() gets the mutex if it is free again and again (the lock is
\* granted fairly), and a call of the engine that was entered returns.
LockFairness ==
    \A t \in Threads :
        /\ SF_vars(Lock(t))
        /\ WF_vars(\E p \in 0 .. MaxDesc : ClosureReturns(t, p))
        /\ WF_vars(ExecuteEnds(t))
        /\ WF_vars(DropEnds(t))

SpecLive == Init /\ [][NextLive]_vars /\ LockFairness

(***************************************************************************)
(* Properties                                                               *)
(***************************************************************************)
PlanCalled == calls.plan > 0
EngineCalled == engine.call.fn # "none"
Failed(kind) == result.tag = "Err" /\ result.err.kind = kind

\* the element types and the buffer lengths of the builder plan() was called on
AttemptIn == attempt.data.in_[1]
AttemptInElem == AttemptIn.elem
AttemptOutElem ==
    IF attempt.stage = "Inplace" THEN AttemptIn.elem ELSE attempt.data.out[1].elem
AttemptInLen == AttemptIn.len
AttemptOutLen ==
    IF attempt.stage = "Inplace" THEN AttemptIn.len ELSE attempt.data.out[1].len
AttemptInStride == AttemptIn.stride
AttemptOutStride ==
    IF attempt.stage = "Inplace" THEN AttemptIn.stride ELSE attempt.data.out[1].stride
AttemptSymmetric == AttemptInElem = AttemptOutElem
AttemptNoDims == attempt.meta.dims = <<>>

\* the mathematical product of the first k lengths, and the extents of section 4.1
RECURSIVE Product(_, _)
Product(ds, k) == IF k = 0 THEN 1 ELSE Product(ds, k - 1) * ds[k].n
RealExtent(ds) == Product(ds, Len(ds))
ComplexExtent(ds) == Product(ds, Len(ds) - 1) * ((ds[Len(ds)].n \div 2) + 1)

\* C1: whenever plan() fails, the caller gets back the original builder with
\* its bound storages and its settings intact.
C1_FailureReturnsBuilder ==
    result.tag = "Err" =>
        /\ planner = "live"
        /\ data = attempt.data
        /\ meta.rigor = attempt.meta.rigor
        /\ meta.wisdom_restriction = attempt.meta.wisdom_restriction
        /\ meta.direction = attempt.meta.direction

\* C2: the engine's destroy entry point is called only while the calling
\* thread holds the FFTW lock.
C2_DestroyHoldsLock ==
    \A t \in Threads : pc[t] \in {"destroy", "unwind_destroy"} => mutex.holder = t

\* C3: at most one thread at a time is executing the closure passed to
\* lock::run.
C3_OneThreadInClosure ==
    Cardinality({t \in Threads : pc[t] = "closure"}) <= 1

C3_Witness ==
    \E t, u \in Threads :
        /\ pc[t] = "closure" /\ op[t] = "RawPlan::new"
        /\ pc[u] = "lock" /\ op[u] \in WisdomFns

C6_OrderOfOperations ==
    /\ calls.input <= 1 /\ calls.output + calls.inplace <= 1 /\ calls.plan <= 1
    /\ calls.output + calls.inplace > 0 => calls.input = 1
    /\ calls.kinds > 0 => calls.output + calls.inplace = 1
    /\ PlanCalled =>
          /\ calls.input = 1 /\ calls.output + calls.inplace = 1
          /\ planner # "live"
          /\ attempt.stage \in {"Io", "Inplace"}
          /\ attempt.state = "Ready"
    /\ planner = "live" =>
          /\ stage = "Begin" <=> calls.input = 0
          /\ stage = "Input" <=> calls.input = 1 /\ calls.output + calls.inplace = 0
          /\ stage = "Io" <=> calls.output = 1
          /\ stage = "Inplace" <=> calls.inplace = 1
          /\ meta.dims # <<>> => stage \in {"Io", "Inplace"}

C6_Witness ==
    /\ PlanCalled /\ result.tag = "Ok"
    /\ calls.inplace = 1
    /\ attempt.meta.dims # <<>>

\* C7: a real->real builder is in the R2R state after output()/inplace() and
\* reaches plan() only through r2r_kinds, so at every real->real plan() the
\* kind list is non-empty; the other pairings are Ready at once, with no kind
\* step.
C7_R2rNeedsKinds ==
    /\ planner = "live" /\ stage \in {"Io", "Inplace"} =>
          LET ie == data.in_[1].elem
              oe == IF stage = "Inplace" THEN ie ELSE data.out[1].elem
          IN  IF ie = "f64" /\ oe = "f64"
              THEN /\ state = "R2R" <=> calls.kinds = 0
                   /\ state = "Ready" <=> calls.kinds = 1 /\ meta.r2r_kinds # <<>>
              ELSE state = "Ready" /\ calls.kinds = 0
    /\ PlanCalled =>
          IF AttemptInElem = "f64" /\ AttemptOutElem = "f64"
          THEN calls.kinds = 1 /\ attempt.meta.r2r_kinds # <<>>
          ELSE calls.kinds = 0 /\ attempt.meta.r2r_kinds = <<>>

C7_Witness ==
    /\ PlanCalled /\ result.tag = "Ok"
    /\ AttemptInElem = "f64" /\ AttemptOutElem = "f64"
    /\ attempt.stage = "Inplace"
    /\ Len(attempt.meta.r2r_kinds) = 2

\* C8: every descriptor the engine returned non-null to RawPlan::new is owned
\* by exactly one RawPlan until that RawPlan is dropped, and is then destroyed
\* exactly once; it is never executed after its destruction, and the destroy
\* entry point is never called for a failed (null) creation.
Owners(d) == {t \in Threads : owned[t] # <<>> /\ owned[t][1].plan = d}

C8_DestroyedExactlyOnce ==
    /\ descs.destroys[NULL] = 0
    /\ Owners(NULL) = {}
    /\ \A d \in 1 .. MaxDesc :
          /\ descs.destroys[d] <= 1
          /\ d <= descs.made /\ descs.destroys[d] = 0 => Cardinality(Owners(d)) = 1
          /\ d > descs.made \/ descs.destroys[d] = 1 => Owners(d) = {}
          /\ d > descs.made => descs.destroys[d] = 0 /\ descs.executes[d] = 0
    /\ \A t \in Threads :
          pc[t] \in {"execute", "destroy", "unwind_destroy"} =>
              owned[t] # <<>> /\ descs.destroys[owned[t][1].plan] = 0

C8_Witness ==
    \E d, e \in 1 .. MaxDesc :
        /\ d # e
        /\ descs.destroys[d] = 1 /\ descs.executes[d] = 1
        /\ \E t \in Threads : pc[t] = "execute" /\ owned[t][1].plan = e

\* C9: plan() returns a Plan exactly when the lowering reached the engine and
\* the create call returned a non-null descriptor, and returns FftwError
\* exactly when it reached the engine and the create call returned null; in
\* that case no Plan and no RawPlan exists.
C9_PlanIffDescriptor ==
    /\ result.tag = "Ok" <=> EngineCalled /\ engine.ret = <<1>>
    /\ Failed("FftwError") <=> EngineCalled /\ engine.ret = <<NULL>>
    /\ plan # <<>> => result.tag = "Ok" /\ plan[1].plan.plan = engine.ret[1]
    /\ result.tag = "Ok" /\ engine.destroyed = <<>> => plan # <<>>
    /\ result.tag # "Ok" =>
          plan = <<>> /\ engine.executes = 0 /\ engine.destroyed = <<>>

C9_Witness ==
    /\ Failed("FftwError")
    /\ EngineCalled
    /\ AttemptInElem = "c64" /\ AttemptOutElem = "f64"

\* C10: lock::run releases the FFTW lock on every exit path of its closure,
\* a panic included: the lock is held exactly by a thread inside its closure;
\* and a thread that waits in lock::run leaves the wait only by taking the
\* lock and running its closure, also after another closure has panicked.
C10_LockReleasedOnEveryPath ==
    /\ [](\A t \in Threads : mutex.holder = t <=> pc[t] = "closure")
    /\ [][\A t \in Threads :
            pc[t] = "lock" /\ pc'[t] # "lock" =>
                pc'[t] = "closure" /\ mutex'.holder = t]_vars

C10_Witness ==
    /\ mutex.poisoned
    /\ \E t, u \in Threads :
          /\ pc[t] = "dead"
          /\ pc[u] = "closure" /\ op[u] = "RawPlan::new"

\* C11: under LockFairness every thread's build and drop complete: a thread
\* that waits for the FFTW lock enters its closure, a thread inside its closure
\* leaves it with the lock released, and a thread that entered the engine's
\* destroy call has dropped its RawPlan; so no thread waits for ever.
C11_BuildAndDropComplete ==
    \A t \in Threads :
        /\ pc[t] = "lock" ~> pc[t] = "closure"
        /\ pc[t] = "closure" ~> pc[t] # "closure" /\ mutex.holder # t
        /\ pc[t] \in {"destroy", "unwind_destroy"} ~> owned[t] = <<>>

C11_Witness ==
    \E t, u \in Threads :
        /\ pc[t] = "closure" /\ op[t] = "RawPlan::new"
        /\ pc[u] = "lock" /\ op[u] = "RawPlan::new"
        /\ \E d \in 1 .. MaxDesc : descs.destroys[d] = 1

\* C12: execute() never acquires the FFTW lock: a thread inside execute()
\* does not hold it, and whoever holds it, a thread that owns a plan can
\* enter execute() and a thread inside execute() can return from it.
C12_ExecuteTakesNoLock ==
    \A t \in Threads :
        /\ pc[t] = "execute" => mutex.holder # t /\ ENABLED ExecuteEnds(t)
        /\ /\ pc[t] = "idle"
           /\ owned[t] # <<>>
           /\ descs.executes[owned[t][1].plan] < MaxExec
           => ENABLED ExecuteBegins(t)

C12_Witness ==
    \E t, u \in Threads :
        /\ pc[t] = "execute"
        /\ pc[u] = "closure" /\ op[u] = "RawPlan::new" /\ mutex.holder = u

\* C13: the flag word passed to the engine's create call is the rigor flag,
\* together with the wisdom-only flag exactly when the builder's wisdom
\* restriction is set at plan().
C13_WisdomOnlyFlag ==
    PlanCalled /\ EngineCalled =>
        engine.call.flags =
            RigorFlags(attempt.meta.rigor) \cup
            (IF attempt.meta.wisdom_restriction THEN {"FFTW_WISDOM_ONLY"} ELSE {})

\* C14: a call of r2r_kinds that returns a builder was given a kind list that
\* is non-empty and whose length is 1 or the number of dimensions set at the
\* call; every other list is rejected by the setter itself.
C14_KindsRejectedAtSetter ==
    [][calls'.kinds > calls.kinds /\ planner' = "live" =>
          /\ Len(meta'.r2r_kinds) > 0
          /\ Len(meta'.r2r_kinds) = 1 \/ Len(meta'.r2r_kinds) = Len(meta.dims)]_vars

\* C15: when one kind was supplied for a real->real transform, the kind array
\* handed to the engine's create call has one entry per lowered dimension and
\* the engine reads the supplied kind for every dimension.
C15_SingleKindBroadcast ==
    /\ EngineCalled
    /\ engine.call.fn = "fftw_plan_guru64_r2r"
    /\ Len(attempt.meta.r2r_kinds) = 1
    => /\ Len(engine.call.kinds) = engine.call.rank
       /\ \A i \in 1 .. engine.call.rank :
             engine.kinds_read[i] = attempt.meta.r2r_kinds[1]

\* C16: every Plan that was created holds a specification (the builder's
\* Meta) whose dimension list is non-empty.
C16_PlanHasDims ==
    plan # <<>> => meta.dims # <<>>

\* C17: for the non-empty dimension list of a plan() that did not panic,
\* Dim::size returned (P * n, P * (n \div 2 + 1)), n the last length and P the
\* product of the other lengths; complex->complex and real->real planning
\* compare both buffer lengths with the first component.
C17_DimSize ==
    PlanCalled /\ ~AttemptNoDims /\ result.tag # "panic" =>
        /\ attempt.size[1] = <<RealExtent(attempt.meta.dims),
                               ComplexExtent(attempt.meta.dims)>>
        /\ AttemptSymmetric =>
              (Failed("BufferTooSmall") <=>
                   \/ AttemptInLen < attempt.size[1][1]
                   \/ AttemptOutLen < attempt.size[1][1])

\* the mathematical product of the lengths after place i
RECURSIVE LaterProduct(_, _)
LaterProduct(lens, i) ==
    IF i >= Len(lens) THEN 1 ELSE lens[i + 1] * LaterProduct(lens, i + 1)

\* C18: nd(lengths), and _1d, _2d, _3d through it, produce one Dim per length
\* in the given order; the last has stride 1, every other one the product of
\* the lengths after it, and the input stride equals the output stride.
C18_NdStrides ==
    planner = "live" /\ calls.dims.fn = "nd" =>
        LET lens == calls.dims.lens
        IN  /\ Len(meta.dims) = Len(lens)
            /\ \A i \in 1 .. Len(lens) :
                  /\ meta.dims[i].n = lens[i]
                  /\ meta.dims[i].in_stride = LaterProduct(lens, i)
                  /\ meta.dims[i].out_stride = meta.dims[i].in_stride

\* C19: nd_subarray(entries) records, for each entry (length, input stride,
\* output stride) and in the given order, a Dim with that length, that input
\* stride and that output stride (a stride given as 0 is the subject of C20).
C19_SubarrayRecordsStrides ==
    planner = "live" /\ calls.dims.fn = "nd_subarray" =>
        LET es == calls.dims.entries
        IN  /\ Len(meta.dims) = Len(es)
            /\ \A i \in 1 .. Len(es) :
                  /\ meta.dims[i].n = es[i][1]
                  /\ es[i][2] # 0 => meta.dims[i].in_stride = es[i][2]
                  /\ es[i][3] # 0 => meta.dims[i].out_stride = es[i][3]

\* C20: in nd_subarray strides of 0 mean tight packing: when the input (or
\* output) strides of the entries are 0, the dimensions get the input (or
\* output) strides nd gives for the same lengths, and no dimension longer
\* than 1 gets stride 0.
C20_ZeroStrideIsTightPacking ==
    planner = "live" /\ calls.dims.fn = "nd_subarray" =>
        LET es == calls.dims.entries
            tight == NdDims([i \in 1 .. Len(es) |-> es[i][1]])
        IN  /\ (\A i \in 1 .. Len(es) : es[i][2] = 0) =>
                  \A i \in 1 .. Len(es) :
                      /\ meta.dims[i].in_stride = tight[i].in_stride
                      /\ meta.dims[i].n > 1 => meta.dims[i].in_stride # 0
            /\ (\A i \in 1 .. Len(es) : es[i][3] = 0) =>
                  \A i \in 1 .. Len(es) :
                      /\ meta.dims[i].out_stride = tight[i].out_stride
                      /\ meta.dims[i].n > 1 => meta.dims[i].out_stride # 0

\* C21: at plan(), every dimension handed to the engine has the input stride
\* the dimension setter gave it times the stride of the input storage, and
\* the output stride the setter gave it times the stride of the output
\* storage (of the input storage after inplace()).
C21_StridesScaledOnce ==
    PlanCalled /\ EngineCalled /\ ~AttemptNoDims =>
        /\ attempt.meta.in_stride = AttemptInStride
        /\ attempt.meta.out_stride = AttemptOutStride
        /\ Len(engine.call.dims) = Len(attempt.meta.dims)
        /\ \A i \in 1 .. Len(attempt.meta.dims) :
              /\ engine.call.dims[i].n = attempt.meta.dims[i].n
              /\ engine.call.dims[i].in_stride =
                     attempt.meta.dims[i].in_stride * AttemptInStride
              /\ engine.call.dims[i].out_stride =
                     attempt.meta.dims[i].out_stride * AttemptOutStride

\* C22: every BufferTooSmall error of a real->complex or complex->real
\* builder carries the length of the real buffer first, the length of the
\* complex buffer second, and the dimension list third.
C22_BufferTooSmallComponents ==
    PlanCalled /\ Failed("BufferTooSmall") /\ ~AttemptSymmetric =>
        /\ result.err.a = (IF AttemptInElem = "f64" THEN AttemptInLen ELSE AttemptOutLen)
        /\ result.err.b = (IF AttemptInElem = "c64" THEN AttemptInLen ELSE AttemptOutLen)
        /\ Len(result.err.dims) = Len(attempt.meta.dims)
        /\ \A i \in 1 .. Len(attempt.meta.dims) :
              result.err.dims[i].n = attempt.meta.dims[i].n

\* C23: every call of _1d, _2d, _3d, nd or nd_subarray that returns a builder
\* leaves the dimension list exactly as that call alone produces it, whatever
\* the list held before, and leaves the stage, the state, the bound storages,
\* the recorded storage strides and the r2r kind list unchanged.
C23_LastDimensionsWin ==
    [][/\ planner' = "live"
       /\ calls'.dims.fn # "none"
       /\ calls'.dims # calls.dims \/ meta'.dims # meta.dims
       => /\ stage' = stage /\ state' = state /\ data' = data
          /\ meta'.in_stride = meta.in_stride
          /\ meta'.out_stride = meta.out_stride
          /\ meta'.r2r_kinds = meta.r2r_kinds
          /\ LET c == calls'.dims
                 given == IF c.fn = "nd" THEN c.lens ELSE c.entries
             IN  /\ Len(meta'.dims) = Len(given)
                 /\ \A i \in 1 .. Len(given) :
                       meta'.dims[i] =
                           IF c.fn = "nd"
                           THEN Dim(c.lens[i], NdStride(c.lens, i), NdStride(c.lens, i))
                           ELSE Dim(c.entries[i][1], SubInStride(c.entries, i),
                                    SubOutStride(c.entries, i))]_vars
\* a builder whose dimension list was set by nd over an earlier, longer list
\* while a kind list was already recorded
C23_Witness ==
    /\ planner = "live"
    /\ calls.dims.fn = "nd" /\ calls.dims.replaced
    /\ Len(meta.dims) = 1
    /\ meta.r2r_kinds # <<>>

\* C24: rigor(), wisdom_restriction() and direction() can be called on a
\* builder in every stage and state; a call returns the builder in the same
\* stage and state and changes one setting only: the dimensions, the storage
\* strides, the kind list, the bound storages and the other two settings stay.
C24_SettingsSetters ==
    [][/\ planner = "live" =>
              /\ \A r \in Rigor : ENABLED PlannerRigor(r)
              /\ \A w \in BOOLEAN : ENABLED PlannerWisdomRestriction(w)
              /\ \A d \in Direction : ENABLED PlannerDirection(d)
       /\ /\ planner = "live" /\ planner' = "live"
          /\ \/ meta'.rigor # meta.rigor
             \/ meta'.wisdom_restriction # meta.wisdom_restriction
             \/ meta'.direction # meta.direction
          => /\ stage' = stage /\ state' = state /\ data' = data
             /\ result' = result
             /\ \E f \in {"rigor", "wisdom_restriction", "direction"} :
                    meta' = [meta EXCEPT ![f] = meta'[f]]]_vars
\* a builder with storages, dimensions and kinds whose three settings all
\* differ from the defaults
C24_Witness ==
    /\ planner = "live"
    /\ stage = "Io" /\ state = "Ready"
    /\ meta.dims # <<>> /\ meta.r2r_kinds # <<>>
    /\ meta.rigor # NewMeta.rigor
    /\ meta.wisdom_restriction # NewMeta.wisdom_restriction
    /\ meta.direction # NewMeta.direction

\* C25: a call of nd or nd_subarray with an empty list panics at the call:
\* no builder comes back, with the dimension list modified or not, and the
\* call does not reach the engine.
C25_EmptyListAborts ==
    [][PlannerNd(<<>>) \/ PlannerNdSubarray(<<>>) =>
          /\ result'.tag = "panic"
          /\ planner' = "dropped"
          /\ engine' = engine /\ plan' = plan /\ attempt' = attempt
          /\ UNCHANGED tvars]_vars
\* nd was called with an empty list on a builder with both storages bound;
\* the engine was not reached
C25_Witness ==
    /\ result.tag = "panic"
    /\ result.err.kind = "Planner.nd: empty dimensions"
    /\ planner = "dropped"
    /\ calls.output > 0
    /\ engine = NoEngine

\* C26: every plan, in-place or not, has input(), which yields the bound
\* input buffer; it has output(), yielding the output buffer, exactly when
\* it is not in-place. An in-place plan's single buffer serves as both.
C26_InputAlwaysOutputIfNotInplace ==
    /\ plan # <<>> =>
          /\ "input" \in PlanMethods /\ PlanInput = AttemptIn
          /\ "output" \in PlanMethods <=> attempt.stage # "Inplace"
          /\ attempt.stage # "Inplace" => PlanOutput = attempt.data.out[1]
          /\ attempt.stage = "Inplace" => PlanInOut = AttemptIn
    /\ mem.at = "Planned" =>
          /\ PlannedInput.elem = "c64" <=> mem.planner \in {"c2c", "c2r"}
          /\ PlannedOutput = <<>> <=> mem.engine.call.out_ptr = mem.engine.call.in_ptr

\* C27: when the create call fails, PlanMem::plan of the first builder
\* returns the PlanMem it was called on, with the same buffers, dimensions
\* and settings; it returns a Planned, owning those buffers, only for a
\* descriptor that is not null.
C27_FailedPlanReturnsPlanMem ==
    [][/\ (mem.at = "PlanMem" /\ mem'.at # "dropped") =>
              /\ mem'.in_ = mem.in_ /\ mem'.out = mem.out
              /\ mem'.dims = mem.dims /\ mem'.how_many = mem.how_many
              /\ mem'.plan = mem.plan /\ mem'.planner = mem.planner
              /\ mem'.engine.ret = <<NULL>> <=> mem'.at = "PlanMem"
              /\ mem'.engine.ret = <<NULL>> <=> mem'.result = "Err"
              /\ mem'.at = "Planned" <=> mem'.raw = <<[plan |-> mem'.engine.ret[1]]>>
              /\ mem'.at = "Planned" <=> mem'.result = "Ok"
       /\ (mem.at = "PlanMem" /\ mem'.at = "dropped") =>
              /\ mem'.engine = mem.engine
              /\ mem'.result = mem.result]_vars
\* a PlanMem with settings of its own came back from a failed plan()
C27_Witness ==
    /\ mem.at = "PlanMem"
    /\ mem.result = "Err"
    /\ mem.engine.ret = <<NULL>>
    /\ mem.out # <<>>
    /\ mem.plan.rigor = "Patient" /\ mem.plan.wisdom_restriction

\* what c2c_1d does for buffers it accepts: InsufficientSpace(in length, out
\* length) without an engine call when out is shorter than in; else
\* FailedPlan when the create call returned null; else one execute, one
\* destroy of the created plan, and Ok.
C2c1dContract ==
    IF oned.out_len < oned.in_len
    THEN /\ oned.ret = "InsufficientSpace"
         /\ oned.err = <<oned.in_len, oned.out_len>>
         /\ oned.call = NoCreate1d /\ oned.created = <<>>
         /\ oned.executes = 0 /\ oned.destroyed = <<>>
    ELSE /\ oned.call.fn = "fftw_plan_dft_1d"
         /\ Len(oned.created) = 1
         /\ IF oned.created = <<NULL>>
            THEN oned.ret = "FailedPlan" /\ oned.executes = 0 /\ oned.destroyed = <<>>
            ELSE oned.ret = "Ok" /\ oned.executes = 1 /\ oned.destroyed = oned.created

C29_PreallocLengthChecks ==
    /\ oned.fn = "Plan::r2c_1d_prealloc" =>
          /\ oned.in_len > 2 * oned.out_len =>
                 oned.ret = "panic" /\ oned.call = NoCreate1d /\ oned.created = <<>>
          /\ oned.call # NoCreate1d \/ oned.ret = "Plan" =>
                 oned.out_len >= oned.in_len \div 2 + 1
    /\ oned.fn = "Plan::c2c_1d_prealloc" =>
          /\ oned.in_len > oned.out_len =>
                 oned.ret = "panic" /\ oned.call = NoCreate1d /\ oned.created = <<>>
          /\ oned.call # NoCreate1d \/ oned.ret = "Plan" =>
                 oned.out_len >= oned.in_len
\* r2c_1d_prealloc made a plan for an out of exactly in.len()/2 + 1 elements,
\* in.len() even
C29_Witness ==
    /\ oned.fn = "Plan::r2c_1d_prealloc"
    /\ oned.ret = "Plan" /\ oned.plan # <<>>
    /\ oned.in_len = 2 /\ oned.out_len = 2

\* the number of elements the transform addresses along dimension i of a
\* buffer of type elem whose partner has type other: n_i, and n_last/2 + 1 in
\* the last dimension of the complex side of r2c / c2r
Extent(ds, i, elem, other) ==
    IF i = Len(ds) /\ elem = "c64" /\ other = "f64" THEN ds[i].n \div 2 + 1 ELSE ds[i].n

\* the largest sum of k_i * stride_i over the first k dimensions, k_i < extent_i
RECURSIVE MaxOffset(_, _, _, _)
MaxOffset(strides, ds, k, ext) ==
    IF k = 0 THEN 0
    ELSE MaxOffset(strides, ds, k - 1, ext) + (ext[k] - 1) * strides[k]

\* every offset addressed through the lowered strides lies in a buffer of
\* len elements with storage stride stride
OffsetsInside(strides, ds, elem, other, len, stride) ==
    LET ext == [i \in 1 .. Len(ds) |-> Extent(ds, i, elem, other)]
    IN  (\A i \in 1 .. Len(ds) : ext[i] > 0) =>
            MaxOffset(strides, ds, Len(ds), ext) <= (len - 1) * stride

\* C31: whenever plan() hands a row-major dimension list to the engine,
\* every element offset the transform may address lies inside the bound
\* buffer, on the input side and on the output side.
C31_OffsetsInsideBuffers ==
    PlanCalled /\ EngineCalled /\ ~AttemptNoDims =>
        LET lowered == engine.call.dims
            ds == attempt.meta.dims
        IN  /\ OffsetsInside([i \in 1 .. Len(ds) |-> lowered[i].in_stride], ds,
                             AttemptInElem, AttemptOutElem,
                             AttemptInLen, AttemptInStride)
            /\ OffsetsInside([i \in 1 .. Len(ds) |-> lowered[i].out_stride], ds,
                             AttemptOutElem, AttemptInElem,
                             AttemptOutLen, AttemptOutStride)

\* the rank plan() lowers for a dimension list: 1 for the default
LoweredRank(ds) == IF ds = <<>> THEN 1 ELSE Len(ds)

\* C32: a real->real builder in the Ready state has a kind list of length 1
\* or of the length of the rank plan() lowers, whatever setters led there;
\* so plan() called on it does not abort on its kind-count assertion.
C32_KindCountMatchesRank ==
    /\ /\ planner = "live" /\ state = "Ready" /\ HasInputHasOutput
       /\ FftDataState(data.in_[1].elem,
                       IF stage = "Inplace" THEN data.in_[1].elem ELSE data.out[1].elem) = "R2R"
       => \/ Len(meta.r2r_kinds) = 1
          \/ Len(meta.r2r_kinds) = LoweredRank(meta.dims)
    /\ PlanCalled /\ AttemptInElem = "f64" /\ AttemptOutElem = "f64" =>
          \/ Len(attempt.meta.r2r_kinds) = 1
          \/ Len(attempt.meta.r2r_kinds) = LoweredRank(attempt.meta.dims)

\* C33: Plan::c2r_1d_prealloc makes a create call, for the length
\* n = out.len(), only if the complex input holds at least n/2 + 1 elements;
\* a shorter input is rejected before the engine is called.
C33_C2rPreallocInputLongEnough ==
    oned.fn = "Plan::c2r_1d_prealloc" =>
        /\ oned.call # NoCreate1d \/ oned.ret = "Plan" =>
               oned.in_len >= oned.out_len \div 2 + 1
        /\ oned.in_len < oned.out_len \div 2 + 1 =>
               oned.ret = "panic" /\ oned.call = NoCreate1d /\ oned.created = <<>>

\* C34: no multiplication of Dim::size or of nd's stride accumulation wraps:
\* when plan() returns, the extents it compared with the buffer lengths are
\* the true products, and no list whose true product exceeds the length of
\* the real-side buffer reaches the engine.
C34_ProductsNeverWrap ==
    /\ planner = "live" /\ calls.dims.fn = "nd" => ~NdOverflows(calls.dims.lens)
    /\ PlanCalled /\ ~AttemptNoDims /\ result.tag \in {"Ok", "Err"} =>
          /\ ~DimSizeOverflows(attempt.meta.dims)
          /\ attempt.size[1][1] = RealExtent(attempt.meta.dims)
          /\ EngineCalled =>
                 RealExtent(attempt.meta.dims) <=
                     (IF AttemptInElem = "c64" /\ AttemptOutElem = "f64"
                      THEN AttemptOutLen ELSE AttemptInLen)


\* C35: every 1-D create call of c2c_1d and of the prealloc constructors
\* receives the length of the buffer the transform is sized by (the input of
\* c2c and r2c, the output of c2r), and that length is a non-negative value
\* of the C int: the narrowing cast has not changed it.
C35_CreateLengthIsBufferLength ==
    oned.call # NoCreate1d =>
        /\ oned.call.n = (IF oned.fn = "Plan::c2r_1d_prealloc"
                          THEN oned.out_len ELSE oned.in_len)
        /\ oned.call.n \in 0 .. CIntMax


\* C36: a PlanMem made by the first builder's c2r holds a transform length n
\* that is the true value of 2 * (in.len() - 1), with n/2 + 1 <= in.len()
\* and n <= out.len(), whatever the length of the input, the empty input
\* included.
C36_C2rLengthFitsBuffers ==
    mem.at \in {"PlanMem", "Planned"} /\ mem.planner = "c2r" =>
        LET n == mem.dims[1].n
        IN  /\ n = 2 * (mem.in_[1].len - 1)
            /\ n \div 2 + 1 <= mem.in_[1].len
            /\ n <= mem.out[1].len


\* C37: for a real length N >= 1, even or odd, the first builder's r2c over a
\* real buffer of N elements and its c2r between a complex buffer of N/2 + 1
\* elements and a real buffer of N elements hold the same transform length N.
C37_R2cC2rSameLength ==
    mem.at \in {"PlanMem", "Planned"} =>
        /\ mem.planner = "r2c" /\ mem.in_[1].len >= 1 =>
               mem.dims[1].n = mem.in_[1].len
        /\ mem.planner = "c2r" /\ mem.out[1].len >= 1
                               /\ mem.in_[1].len = mem.out[1].len \div 2 + 1 =>
               mem.dims[1].n = mem.out[1].len


\* C38: an in-place plan hands one buffer to the engine.  In builder2 the
\* recorded output stride equals the recorded input stride, which is the
\* stride of the storage; the lowering takes the input's address, length and
\* stride for the output: both pointers of the create call are the input's,
\* the default dimension is the input's length with the storage's stride on
\* both sides, a dimension with equal strides keeps equal strides, and
\* BufferTooSmall carries the input's length twice.  In the first builder the
\* create call of a PlanMem without an output has the input's address on both
\* sides and one tightly packed dimension of the input's length.
C38_InplaceSharesBuffer ==
    /\ planner \in {"live", "in_plan"} /\ stage = "Inplace" =>
           meta.out_stride = meta.in_stride /\ meta.in_stride = data.in_[1].stride
    /\ PlanCalled /\ attempt.stage = "Inplace" =>
           /\ attempt.meta.out_stride = attempt.meta.in_stride
           /\ Failed("BufferTooSmall") =>
                  result.err.a = AttemptInLen /\ result.err.b = AttemptInLen
           /\ EngineCalled =>
                  /\ engine.call.in_ptr = "in" /\ engine.call.out_ptr = "in"
                  /\ AttemptNoDims =>
                         engine.call.dims =
                             <<Dim(AttemptInLen, AttemptInStride, AttemptInStride)>>
                  /\ \A i \in 1 .. Len(attempt.meta.dims) :
                         attempt.meta.dims[i].in_stride = attempt.meta.dims[i].out_stride =>
                             engine.call.dims[i].in_stride = engine.call.dims[i].out_stride
    /\ mem.at \in {"PlanMem", "Planned"} /\ mem.out = <<>> /\ mem.engine.call.fn # "none" =>
           /\ mem.engine.call.in_ptr = "in" /\ mem.engine.call.out_ptr = "in"
           /\ mem.engine.call.dims = <<Dim(mem.in_[1].len, 1, 1)>>
\* an in-place builder2 plan over a storage of stride 2 without dimensions,
\* and an in-place plan of the first builder, were both made by the engine
C38_Witness ==
    /\ PlanCalled /\ attempt.stage = "Inplace" /\ result.tag = "Ok"
    /\ AttemptInStride = 2 /\ AttemptNoDims
    /\ engine.call.in_ptr = engine.call.out_ptr
    /\ mem.at = "Planned" /\ mem.out = <<>>
    /\ mem.engine.call.in_ptr = mem.engine.call.out_ptr


\* C39: inplace() leads to a builder whose transform is from the input's
\* element type to itself, so the lowering of an in-place builder is the
\* complex->complex or the real->real one; no builder that can call plan(),
\* and no builder plan() was called on, lowers to an unimplemented in-place
\* branch of real->complex or complex->real.
C39_InplaceNeverUnimplemented ==
    /\ planner = "live" /\ HasInputHasOutput =>
           FftSpecPlan(stage, data, [meta EXCEPT !.dims = <<>>]).tag # "unimplemented"
    /\ PlanCalled =>
           /\ attempt.stage = "Inplace" => AttemptSymmetric
           /\ FftSpecPlan(attempt.stage, attempt.data,
                          [attempt.meta EXCEPT !.dims = <<>>]).tag # "unimplemented"
\* plan() made an in-place real->real plan
C39_Witness ==
    /\ PlanCalled /\ attempt.stage = "Inplace" /\ AttemptInElem = "f64"
    /\ result.tag = "Ok" /\ EngineCalled
    /\ engine.call.fn = "fftw_plan_guru64_r2r"

====
